---- MODULE Spec2Model ----
(***************************************************************************)
(* Model of the Express backend of the campus marketplace                  *)
(* (src/unnamed/part_003, the final variant of src/backend/app.js):        *)
(* the access gate authenticateToken, the multer upload middleware, and    *)
(* the POST / PUT / DELETE /api/products handlers, together with the two   *)
(* stores they act on: the products table and the uploads/images           *)
(* directory.  The one client operation modelled is handleMarkSold of      *)
(* src/src/components/CampusMarketplace.jsx, which builds the body of a    *)
(* PUT from the client's copy of the item.                                 *)
(*                                                                         *)
(* Every request runs as its own process.  A handler is cut at its awaits: *)
(* the code between two awaits runs atomically (Node runs it to            *)
(* completion), the database statement it awaits and the callbacks of      *)
(* fs.unlink run later, interleaved with the other requests.               *)
(***************************************************************************)
EXTENDS Integers, Sequences, FiniteSets, Bags, TLC

(***************************************************************************)
(* Bounds of the model.                                                     *)
(***************************************************************************)
\* requests that arrive in one behaviour
MaxRequests == 3
\* last value of the millisecond clock Date.now()
MaxNow == 2

\* requests in flight at the same time
Slots == {1, 2}
\* ids of the users that hold (or are named by) tokens
Users == {1, 2}

(***************************************************************************)
(* JavaScript values, as far as the handlers look at them.                 *)
(***************************************************************************)
Undefined == [t |-> "undefined"]
NaN == [t |-> "nan"]
Str(s) == [t |-> "string", s |-> s]
Num(n) == [t |-> "number", n |-> n]
Bool(b) == [t |-> "boolean", b |-> b]

\* ToBoolean: what `!v` and `v || w` test
Truthy(v) ==
    CASE v.t = "undefined" -> FALSE
      [] v.t = "nan" -> FALSE
      [] v.t = "string" -> v.s /= <<>>
      [] v.t = "number" -> v.n /= 0
      [] v.t = "boolean" -> v.b

\* variant, v ?? w, that keeps an empty text, which C34_TextsNeverEmpty
\* tells apart
OrElseNullish(v, w) == IF v /= Undefined THEN v ELSE w

\* v || w
OrElse(v, w) == IF Truthy(v) THEN v ELSE w

Digits == <<"0", "1", "2", "3", "4", "5", "6", "7", "8", "9">>

IsDigit(c) == \E i \in 1..10 : Digits[i] = c

DigitVal(c) == (CHOOSE i \in 1..10 : Digits[i] = c) - 1

\* length of the longest prefix of s made of digits
RECURSIVE DigitPrefix(_)
DigitPrefix(s) ==
    IF s = <<>> \/ ~IsDigit(Head(s)) THEN 0 ELSE 1 + DigitPrefix(Tail(s))

\* value of a sequence of digits, acc being the value read so far
RECURSIVE DigitsValue(_, _)
DigitsValue(s, acc) ==
    IF s = <<>> THEN acc ELSE DigitsValue(Tail(s), 10 * acc + DigitVal(Head(s)))

\* StrWhiteSpaceChar prefix that parseFloat skips
RECURSIVE TrimLeft(_)
TrimLeft(s) ==
    IF s /= <<>> /\ Head(s) = " " THEN TrimLeft(Tail(s)) ELSE s

\* parseFloat on a string of an optional sign and decimal digits followed by
\* anything: the longest numeric prefix, NaN when there is none
ParseFloatStr(s) ==
    LET t == TrimLeft(s)
        neg == t /= <<>> /\ Head(t) = "-"
        signed == t /= <<>> /\ Head(t) \in {"-", "+"}
        u == IF signed THEN Tail(t) ELSE t
        k == DigitPrefix(u)
        n == DigitsValue(SubSeq(u, 1, k), 0)
    IN  IF k = 0 THEN NaN ELSE Num(IF neg THEN 0 - n ELSE n)

\* parseFloat(v): v is converted to a string first
ParseFloat(v) ==
    CASE v.t = "string" -> ParseFloatStr(v.s)
      [] v.t = "number" -> v
      [] OTHER -> NaN

\* isNaN(v)
IsNaN(v) == v.t = "nan"

\* variant without the sign test, which C10_PriceNonNegative tells apart
BadPriceNaNOnly(v) == IsNaN(v)

\* isNaN(v) || v < 0, the test both handlers apply to parsedPrice
BadPrice(v) == IsNaN(v) \/ v.n < 0

(***************************************************************************)
(* Text of file names and content types.                                   *)
(***************************************************************************)
RECURSIVE IsPrefix(_, _)
IsPrefix(p, s) ==
    \/ p = <<>>
    \/ s /= <<>> /\ Head(p) = Head(s) /\ IsPrefix(Tail(p), Tail(s))

RECURSIVE Contains(_, _)
Contains(s, p) ==
    \/ IsPrefix(p, s)
    \/ s /= <<>> /\ Contains(Tail(s), p)

LowerChar(c) ==
    CASE c = "P" -> "p" [] c = "N" -> "n" [] c = "G" -> "g"
      [] c = "J" -> "j" [] c = "E" -> "e" [] c = "I" -> "i"
      [] c = "F" -> "f" [] c = "T" -> "t" [] c = "X" -> "x"
      [] OTHER -> c

ToLowerCase(s) == [i \in 1..Len(s) |-> LowerChar(s[i])]

(***************************************************************************)
(* The upload middleware: multer({storage, limits, fileFilter}).           *)
(***************************************************************************)
\* limits.fileSize, in bytes
FileSizeLimit == 5 * 1024 * 1024

\* the pattern /jpeg|jpg|png|gif/, tested anywhere in the text
FiletypesTest(s) ==
    \/ Contains(s, <<"j", "p", "e", "g">>)
    \/ Contains(s, <<"j", "p", "g">>)
    \/ Contains(s, <<"p", "n", "g">>)
    \/ Contains(s, <<"g", "i", "f">>)

\* variant accepting on either test, which C8_CreateRejectsContentType tells apart
FileFilterEither(f) == FiletypesTest(f.mimetype) \/ FiletypesTest(ToLowerCase(f.ext))

\* fileFilter: both the declared content type and the extension must match
FileFilter(f) == FiletypesTest(f.mimetype) /\ FiletypesTest(ToLowerCase(f.ext))

ImagePng == <<"i", "m", "a", "g", "e", "/", "p", "n", "g">>
TextPlain == <<"t", "e", "x", "t", "/", "p", "l", "a", "i", "n">>
DotPng == <<".", "p", "n", "g">>
DotTxt == <<".", "t", "x", "t">>

\* a file part of a multipart body: declared content type, path.extname of
\* its original name, and its length in bytes
File(m, e, n) == [t |-> "file", mimetype |-> m, ext |-> e, size |-> n]

NoFile == [t |-> "nofile"]

\* the file parts a request may carry
Files ==
    { File(ImagePng, DotPng, FileSizeLimit),
      File(ImagePng, DotPng, FileSizeLimit + 1),
      File(TextPlain, DotPng, 1),
      File(ImagePng, DotTxt, 1) }

Null == [t |-> "null"]

\* storage.filename: fieldname + '-' + Date.now() + path.extname(originalname)
Filename(f, clock) == [field |-> "image_file", ts |-> clock, ext |-> f.ext]

\* `uploads/images/${req.file.filename}`, which path.join(__dirname, ...)
\* takes back to req.file.path, the file under imagesDir
ImagePath(name) == [t |-> "path", dir |-> "uploads/images", name |-> name]

(***************************************************************************)
(* Request bodies.                                                         *)
(***************************************************************************)
TextFields == {"title", "category", "description", "contact_number", "location"}

A == Str(<<"a">>)
B == Str(<<"b">>)
Empty == Str(<<>>)

PriceInputs ==
    { Undefined, Str(<<"0">>), Str(<<"7">>), Str(<<"-", "5">>),
      Str(<<"a", "b", "c">>), Num(0), Num(0 - 5) }

NoBody ==
    [title |-> Undefined, price |-> Undefined, category |-> Undefined,
     description |-> Undefined, contact_number |-> Undefined,
     location |-> Undefined, sold |-> Undefined]

FullBody ==
    [title |-> A, price |-> Str(<<"7">>), category |-> A, description |-> A,
     contact_number |-> A, location |-> A, sold |-> Undefined]

\* base, and the bodies that differ from it in one field
OneFieldFrom(base, texts, prices, solds) ==
    {base}
    \cup { [base EXCEPT ![fv[1]] = fv[2]] : fv \in texts }
    \cup { [base EXCEPT !.price = v] : v \in prices }
    \cup { [base EXCEPT !.sold = v] : v \in solds }

\* bodies of POST /api/products: complete, or one field missing or wrong
CreateBodies ==
    OneFieldFrom(FullBody,
                 (TextFields \X {Undefined}) \cup {<<"title", Empty>>},
                 PriceInputs, {})

\* bodies of PUT /api/products/:id: nothing or one field supplied
UpdateBodies ==
    OneFieldFrom(NoBody,
                 {<<"title", B>>, <<"title", Empty>>, <<"location", B>>},
                 PriceInputs \ {Num(0), Num(0 - 5)}, {Bool(TRUE), Bool(FALSE)})

(***************************************************************************)
(* Tokens.                                                                 *)
(***************************************************************************)
\* no Authorization header
NoToken == [t |-> "absent"]

\* a bearer token naming user u; good: signed with JWT_SECRET and not expired
Jwt(u, good) == [t |-> "jwt", id |-> u, valid |-> good]

Tokens == {NoToken, Jwt(1, FALSE)} \cup { Jwt(u, TRUE) : u \in Users }

\* variant that accepts every token, which C4_GateBeforeService tells apart
VerifyAny(token) == TRUE

\* jwt.verify(token, JWT_SECRET, cb) calls back without an error
Verify(token) == token.valid

(***************************************************************************)
(* State.                                                                  *)
(***************************************************************************)
VARIABLES
    products,   \* the products table: id -> row
    nextId,     \* its AUTO_INCREMENT counter
    blobs,      \* the files that exist under uploads/images
    unlinks,    \* fs.unlink calls issued and not yet carried out (a bag of paths)
    now,        \* Date.now()
    issued,     \* requests that have arrived
    reqs,       \* the request handled in each slot
    resp        \* what the last step sent: nothing, or a response

\* the accounts: the users table and the calls of /api/signup and /api/login
VARIABLES
    users,      \* the users table: id -> row
    nextUserId, \* its AUTO_INCREMENT counter
    time,       \* the clock jsonwebtoken reads, in whole seconds
    held,       \* the tokens the clients have been sent
    called,     \* calls of /api/signup and /api/login that have arrived
    calls,      \* the call handled in each slot
    reply       \* what the last step sent to a call or at the gate

\* the connection pool
VARIABLES
    jobs,       \* pool.execute calls made so far
    conns,      \* the calls that hold a connection of the pool
    queue,      \* the calls that wait for one, oldest first
    refused     \* the calls the pool turned away

listings == <<products, nextId, blobs, unlinks, now, issued, reqs, resp>>

accounts == <<users, nextUserId, time, held, called, calls, reply>>

pool == <<jobs, conns, queue, refused>>

vars == <<listings, accounts, pool>>

NoParams == [t |-> "none"]

\* json: the body came as application/json, which express.json() has parsed
\* on arrival and multer passes by; otherwise it is multipart, read by multer
Idle ==
    [pc |-> "idle", kind |-> "none", token |-> NoToken, user |-> 0, id |-> 0,
     upfile |-> NoFile, file |-> Null, body |-> NoBody, params |-> NoParams,
     json |-> FALSE]

\* no listing in the JSON of the response
NoJson == [t |-> "none"]

\* a response: its status code, with the request it answers (method,
\* Authorization header and :id) and what the answering step read of it
\* (the file part, the body)
Response(q, code, f, b) ==
    [status |-> code, kind |-> q.kind, token |-> q.token, id |-> q.id,
     upfile |-> f, body |-> b, json |-> NoJson]

\* nothing sent
NoResponse == Response(Idle, 0, NoFile, NoBody)

\* no body read
NoCredentials == [name |-> Undefined, email |-> Undefined, password |-> Undefined]

\* a slot without a call
NoCall ==
    [pc |-> "idle", route |-> "none", body |-> NoCredentials,
     hashedPassword |-> Null]

\* what a step sent: the status code and, of the JSON, user and token; with
\* it the route, the body and Authorization header read, the time, and
\* next: the gate let the request through to its handler
Reply(route, code, b, user, token) ==
    [route |-> route, status |-> code, body |-> b, user |-> user,
     token |-> token, at |-> time, next |-> FALSE]

NoReply ==
    [route |-> "none", status |-> 0, body |-> NoCredentials, user |-> Null,
     token |-> NoToken, at |-> 0, next |-> FALSE]

\* the accounts before the first call
NoAccounts ==
    /\ users = <<>>
    /\ nextUserId = 1
    /\ time = 0
    /\ held = {}
    /\ called = 0
    /\ calls = [c \in Slots |-> NoCall]
    /\ reply = NoReply

\* the pool before the first query
PoolIdle ==
    /\ jobs = 0
    /\ conns = {}
    /\ queue = <<>>
    /\ refused = {}

Init ==
    /\ products = <<>>
    /\ nextId = 1
    /\ blobs = {}
    /\ unlinks = EmptyBag
    /\ now = 1
    /\ issued = 0
    /\ reqs = [r \in Slots |-> Idle]
    /\ resp = NoResponse
    /\ NoAccounts
    /\ PoolIdle

\* fs.unlink(path, cb) is issued; it is carried out later
UnlinkLater(paths) == unlinks (+) paths

One(path) == SetToBag({path})

\* variant that leaves the upload, which C14_InsertFailureCompensated tells apart
UnlinkNoUpload(q) == EmptyBag

\* `if (req.file) fs.unlink(req.file.path, ...)`
UnlinkUpload(q) == IF q.file /= Null THEN One(q.file) ELSE EmptyBag

\* variant of a path that returns without sending, which
\* C36_ExactlyOneResponse tells apart
ReturnWithoutResponse(r, q, code, f, b) ==
    /\ reqs' = [reqs EXCEPT ![r] = Idle]
    /\ resp' = NoResponse

\* res.status(code).json(...): the request is answered
Respond(r, q, code, f, b) ==
    /\ reqs' = [reqs EXCEPT ![r] = Idle]
    /\ resp' = Response(q, code, f, b)

\* the request goes on as q, nothing is sent
Continue(r, q) ==
    /\ reqs' = [reqs EXCEPT ![r] = q]
    /\ resp' = NoResponse

(***************************************************************************)
(* The access gate and the arrival of a request.                           *)
(***************************************************************************)
Kinds == {"create", "update", "delete"}

\* authenticateToken: 401 without a token, 403 when it does not verify,
\* otherwise req.user is the token's payload and the next middleware runs
AuthenticateToken(r, q) ==
    IF q.token = NoToken THEN Respond(r, q, 401, NoFile, NoBody)
    ELSE IF ~Verify(q.token) THEN Respond(r, q, 403, NoFile, NoBody)
    ELSE Continue(r, [q EXCEPT !.user = q.token.id,
                               !.pc = IF q.kind = "delete" \/ q.json
                                        THEN "handler" ELSE "upload"])

\* a request arrives on a free slot: POST /api/products, or PUT or DELETE
\* /api/products/:id for an id the table has handed out or the next one
Request(r) ==
    /\ reqs[r].pc = "idle"
    /\ \A s \in Slots : s < r => reqs[s].pc /= "idle"
    /\ issued < MaxRequests
    /\ \E kind \in Kinds, token \in Tokens, id \in 1..nextId :
          AuthenticateToken(r,
              [Idle EXCEPT !.kind = kind, !.token = token,
                           !.id = IF kind = "create" THEN 0 ELSE id])
    /\ issued' = issued + 1
    /\ UNCHANGED <<products, nextId, blobs, unlinks, now>>
    /\ UNCHANGED <<accounts, pool>>

\* the payload of handleMarkSold: every field of the item as the client
\* holds it, with sold negated (its image_url is read by no handler)
MarkSoldPayload(item) ==
    [title |-> item.title, price |-> item.price, category |-> item.category,
     description |-> item.description, contact_number |-> item.contact_number,
     location |-> item.location, sold |-> Bool(~item.sold)]

\* handleMarkSold(id): the seller's dashboard, holding the items as its last
\* fetch returned them (here: as the table has them when the button is
\* pressed), sends PUT /api/products/:id with a JSON body and the seller's
\* token
HandleMarkSold(r) ==
    /\ reqs[r].pc = "idle"
    /\ \A s \in Slots : s < r => reqs[s].pc /= "idle"
    /\ issued < MaxRequests
    /\ \E id \in DOMAIN products :
          LET itemToToggle == products[id]
          IN  AuthenticateToken(r,
                  [Idle EXCEPT !.kind = "update", !.id = id, !.json = TRUE,
                               !.token = Jwt(itemToToggle.seller_id, TRUE),
                               !.body = MarkSoldPayload(itemToToggle)])
    /\ issued' = issued + 1
    /\ UNCHANGED <<products, nextId, blobs, unlinks, now>>
    /\ UNCHANGED <<accounts, pool>>

(***************************************************************************)
(* upload.single('image_file')                                             *)
(***************************************************************************)
\* multer passes its error to next(err); the app installs no error
\* middleware, so the handler is skipped and Express answers 500
\* variant in which the handler runs all the same, which C15_StoreFailureAborts
\* tells apart
UploadFailedHandlerRuns(r, q, f) == Continue(r, [q EXCEPT !.pc = "handler", !.upfile = f])

UploadFailed(r, q, f) == Respond(r, q, 500, f, NoBody)

\* The file part, if any, goes through fileFilter; an accepted file is
\* written under imagesDir under storage.filename, which reads the clock
\* (clock: Date.now() then, not before the value it had last).  A rejected
\* file, and a write that fails (leaving nothing or a partial file), make
\* multer pass an error on.  A file longer than limits.fileSize is cut at the
\* limit while it is written, and multer removes it again before it passes
\* the error on.
Upload(r) ==
    LET q == reqs[r] IN
    /\ q.pc = "upload"
    /\ \E f \in Files \cup {NoFile}, clock \in now..MaxNow :
          LET path == ImagePath(Filename(f, clock))
          IN  IF f = NoFile
                THEN /\ Continue(r, [q EXCEPT !.pc = "handler"])
                     /\ UNCHANGED <<blobs, now>>
              ELSE IF ~FileFilter(f)
                THEN /\ UploadFailed(r, q, f)
                     /\ UNCHANGED <<blobs, now>>
              ELSE IF f.size > FileSizeLimit
                THEN /\ blobs' = blobs \cup {path}
                     /\ now' = clock
                     /\ Continue(r, [q EXCEPT !.pc = "abort", !.file = path, !.upfile = f])
              ELSE \/ /\ blobs' = blobs \cup {path}
                      /\ now' = clock
                      /\ Continue(r, [q EXCEPT !.pc = "handler", !.file = path, !.upfile = f])
                   \/ /\ blobs' \in {blobs, blobs \cup {path}}
                      /\ now' = clock
                      /\ UploadFailed(r, q, f)
    /\ UNCHANGED <<products, nextId, unlinks, issued>>
    /\ UNCHANGED <<accounts, pool>>

\* multer removes the file it cut at the size limit and passes the error on
AbortUpload(r) ==
    LET q == reqs[r] IN
    /\ q.pc = "abort"
    /\ blobs' = blobs \ {q.file}
    /\ UploadFailed(r, q, q.upfile)
    /\ UNCHANGED <<products, nextId, unlinks, now, issued>>
    /\ UNCHANGED <<accounts, pool>>

(***************************************************************************)
(* POST /api/products                                                      *)
(***************************************************************************)
\* variant of the older handler, without location, which
\* C5_CreateRejectsInvalid tells apart
MissingFieldsNoLocation(b) ==
    \/ ~Truthy(b.title)
    \/ ~Truthy(b.price)
    \/ ~Truthy(b.category)
    \/ ~Truthy(b.description)
    \/ ~Truthy(b.contact_number)

\* !title || !price || !category || !description || !contact_number || !location
MissingFields(b) ==
    \/ ~Truthy(b.title)
    \/ ~Truthy(b.price)
    \/ ~Truthy(b.category)
    \/ ~Truthy(b.description)
    \/ ~Truthy(b.contact_number)
    \/ ~Truthy(b.location)

\* variant that binds no user as seller, which C11_SellerImmutable tells apart
InsertParamsAnonymous(q, b, parsedPrice) ==
    [title |-> b.title, price |-> parsedPrice, category |-> b.category,
     description |-> b.description, image_url |-> q.file,
     contact_number |-> b.contact_number, location |-> b.location,
     seller_id |-> 0, sold |-> FALSE]

\* the values bound to the INSERT; sold takes the column's default
InsertParams(q, b, parsedPrice) ==
    [title |-> b.title, price |-> parsedPrice, category |-> b.category,
     description |-> b.description, image_url |-> q.file,
     contact_number |-> b.contact_number, location |-> b.location,
     seller_id |-> q.user, sold |-> FALSE]

\* variant that sends the stored path as it is, which C27_ImageUrlResolved
\* tells apart
ResolveUrlBare(path) == path

\* `${BASE_URL}/${image_path}`
ResolveUrl(path) == [t |-> "url", base |-> "BASE_URL", ref |-> path]

\* variant of the older handler, answering the price as it was sent, which
\* C16_CreateAddsOneRow tells apart
NewProductRawPrice(q, insertId) ==
    [id |-> insertId, title |-> q.body.title, price |-> q.body.price,
     category |-> q.body.category, description |-> q.body.description,
     image_url |-> IF q.file /= Null THEN ResolveUrl(q.file) ELSE Null,
     contact_number |-> q.body.contact_number, location |-> q.body.location,
     seller_id |-> q.user, sold |-> FALSE]

\* newProduct, the listing in the 201 response (without created_at, the day)
NewProduct(q, insertId) ==
    [id |-> insertId, title |-> q.body.title, price |-> q.params.price,
     category |-> q.body.category, description |-> q.body.description,
     image_url |-> IF q.file /= Null THEN ResolveUrl(q.file) ELSE Null,
     contact_number |-> q.body.contact_number, location |-> q.body.location,
     seller_id |-> q.user, sold |-> FALSE]

\* the handler up to its await: the two validations, each of which unlinks
\* the uploaded file and answers 400, then the INSERT is sent
CreateHandler(r) ==
    LET q == reqs[r] IN
    /\ q.pc = "handler"
    /\ q.kind = "create"
    /\ \E b \in CreateBodies :
          LET u == [q EXCEPT !.body = b]
              parsedPrice == ParseFloat(b.price)
          IN  IF MissingFields(b) \/ BadPrice(parsedPrice)
                THEN /\ unlinks' = UnlinkLater(UnlinkUpload(q))
                     /\ Respond(r, q, 400, NoFile, b)
                ELSE /\ unlinks' = unlinks
                     /\ Continue(r, [u EXCEPT !.pc = "db",
                                               !.params = InsertParams(q, b, parsedPrice)])
    /\ UNCHANGED <<products, nextId, blobs, now, issued>>
    /\ UNCHANGED <<accounts, pool>>

\* the INSERT is executed and answered 201, or fails: the catch block
\* unlinks the uploaded file and answers 500
CreateInsert(r) ==
    LET q == reqs[r] IN
    /\ q.pc = "db"
    /\ q.kind = "create"
    /\ \/ /\ products' = products @@ (nextId :> q.params)
          /\ nextId' = nextId + 1
          /\ unlinks' = unlinks
          /\ reqs' = [reqs EXCEPT ![r] = Idle]
          /\ resp' = [Response(q, 201, NoFile, NoBody) EXCEPT !.json = NewProduct(q, nextId)]
       \/ /\ UNCHANGED <<products, nextId>>
          /\ unlinks' = UnlinkLater(UnlinkUpload(q))
          /\ Respond(r, q, 500, NoFile, NoBody)
    /\ UNCHANGED <<blobs, now, issued>>
    /\ UNCHANGED <<accounts, pool>>

\* variant that tells the caller of a listing that is somebody else's,
\* which C25_ExistenceNotDisclosed tells apart
NotFoundOrForbidden(id) == IF id \in DOMAIN products THEN 403 ELSE 404

\* the status sent when the lookup returns no row: 'Product not found or
\* not authorized'
NotFound(id) == 404

(***************************************************************************)
(* PUT /api/products/:id                                                   *)
(***************************************************************************)
\* variant selecting by id alone, which C3_OwnershipEnforced tells apart
SelectById(id, seller_id) == { i \in DOMAIN products : i = id }

\* SELECT * FROM products WHERE id = ? AND seller_id = ?
SelectOwned(id, seller_id) ==
    { i \in DOMAIN products : i = id /\ products[i].seller_id = seller_id }

\* the old image is unlinked when a new one came and the old file exists
UnlinkOld(q, product) ==
    IF q.file /= Null /\ product.image_url /= Null /\ product.image_url \in blobs
      THEN One(product.image_url) ELSE EmptyBag

\* price !== undefined ? parseFloat(price) : product.price
UpdatePrice(b, product) ==
    IF b.price /= Undefined THEN ParseFloat(b.price) ELSE product.price

\* the column a sold value of the body is stored as
SoldColumn(v) == v.b

\* the values bound to the UPDATE
UpdateParams(q, b, product, parsedPrice) ==
    [title |-> OrElse(b.title, product.title),
     price |-> parsedPrice,
     category |-> OrElse(b.category, product.category),
     description |-> OrElse(b.description, product.description),
     image_url |-> IF q.file /= Null THEN q.file ELSE product.image_url,
     contact_number |-> OrElse(b.contact_number, product.contact_number),
     location |-> OrElse(b.location, product.location),
     seller_id |-> product.seller_id,
     sold |-> IF b.sold /= Undefined THEN SoldColumn(b.sold) ELSE product.sold]

\* the handler from the answer of its SELECT up to the second await.  A
\* failed SELECT goes to the catch block (unlink the upload, 500); no row:
\* 404; then the old image is unlinked, the price is validated (unlink the
\* upload, 400) and the UPDATE is sent
UpdateHandler(r) ==
    LET q == reqs[r] IN
    /\ q.pc = "handler"
    /\ q.kind = "update"
    /\ \/ /\ unlinks' = UnlinkLater(UnlinkUpload(q))
          /\ Respond(r, q, 500, NoFile, NoBody)
       \/ /\ SelectOwned(q.id, q.user) = {}
          /\ unlinks' = unlinks
          /\ Respond(r, q, NotFound(q.id), NoFile, NoBody)
       \/ /\ SelectOwned(q.id, q.user) /= {}
          /\ \E b \in (IF q.json THEN {q.body} ELSE UpdateBodies) :
                LET u == [q EXCEPT !.body = b]
                    product == products[q.id]
                    parsedPrice == UpdatePrice(b, product)
                IN  IF BadPrice(parsedPrice)
                      THEN /\ unlinks' = UnlinkLater(UnlinkOld(q, product) (+) UnlinkUpload(q))
                           /\ Respond(r, q, 400, NoFile, b)
                      ELSE /\ unlinks' = UnlinkLater(UnlinkOld(q, product))
                           /\ Continue(r, [u EXCEPT !.pc = "db",
                                 !.params = UpdateParams(q, b, product, parsedPrice)])
    /\ UNCHANGED <<products, nextId, blobs, now, issued>>
    /\ UNCHANGED <<accounts, pool>>

\* variant that writes the row whether or not it is still there, which
\* C28_DeletionFinal tells apart
UpdateOrInsert(id, params) == (id :> params) @@ products

\* UPDATE products SET title = ?, ..., sold = ? WHERE id = ?
UpdateWhereId(id, params) ==
    [i \in DOMAIN products |->
        IF i = id THEN [params EXCEPT !.seller_id = products[i].seller_id]
        ELSE products[i]]

\* the UPDATE is executed and answered 200 whatever number of rows it
\* changed, or fails: the catch block unlinks the upload and answers 500
UpdateWrite(r) ==
    LET q == reqs[r] IN
    /\ q.pc = "db"
    /\ q.kind = "update"
    /\ \/ /\ products' = UpdateWhereId(q.id, q.params)
          /\ unlinks' = unlinks
          /\ Respond(r, q, 200, NoFile, NoBody)
       \/ /\ products' = products
          /\ unlinks' = UnlinkLater(UnlinkUpload(q))
          /\ Respond(r, q, 500, NoFile, NoBody)
    /\ UNCHANGED <<nextId, blobs, now, issued>>
    /\ UNCHANGED <<accounts, pool>>

(***************************************************************************)
(* DELETE /api/products/:id                                                *)
(***************************************************************************)
\* the image of the row is unlinked when the file exists
UnlinkImage(product) ==
    IF product.image_url /= Null /\ product.image_url \in blobs
      THEN One(product.image_url) ELSE EmptyBag

\* the handler from the answer of its SELECT up to the second await
DeleteHandler(r) ==
    LET q == reqs[r] IN
    /\ q.pc = "handler"
    /\ q.kind = "delete"
    /\ \/ /\ unlinks' = unlinks
          /\ Respond(r, q, 500, NoFile, NoBody)
       \/ /\ SelectOwned(q.id, q.user) = {}
          /\ unlinks' = unlinks
          /\ Respond(r, q, NotFound(q.id), NoFile, NoBody)
       \/ /\ SelectOwned(q.id, q.user) /= {}
          /\ unlinks' = UnlinkLater(UnlinkImage(products[q.id]))
          /\ Continue(r, [q EXCEPT !.pc = "db"])
    /\ UNCHANGED <<products, nextId, blobs, now, issued>>
    /\ UNCHANGED <<accounts, pool>>

\* variant that removes no row, which C12_DeleteRemovesRow tells apart
DeleteNoRow(id) == products

\* DELETE FROM products WHERE id = ?
DeleteWhereId(id) == [i \in DOMAIN products \ {id} |-> products[i]]

\* the DELETE is executed and answered 200, or fails and is answered 500
DeleteWrite(r) ==
    LET q == reqs[r] IN
    /\ q.pc = "db"
    /\ q.kind = "delete"
    /\ \/ /\ products' = DeleteWhereId(q.id)
          /\ Respond(r, q, 200, NoFile, NoBody)
       \/ /\ products' = products
          /\ Respond(r, q, 500, NoFile, NoBody)
    /\ UNCHANGED <<nextId, blobs, unlinks, now, issued>>
    /\ UNCHANGED <<accounts, pool>>

(***************************************************************************)
(* The environment: the file system carries out an unlink.                 *)
(***************************************************************************)
\* one pending fs.unlink is carried out (on a missing file it only logs)
Unlink ==
    /\ \E path \in BagToSet(unlinks) :
          /\ blobs' = blobs \ {path}
          /\ unlinks' = unlinks (-) One(path)
    /\ resp' = NoResponse
    /\ UNCHANGED <<products, nextId, now, issued, reqs>>
    /\ UNCHANGED <<accounts, pool>>

Next ==
    \/ \E r \in Slots : Request(r)
    \/ \E r \in Slots : HandleMarkSold(r)
    \/ \E r \in Slots : Upload(r)
    \/ \E r \in Slots : AbortUpload(r)
    \/ \E r \in Slots : CreateHandler(r)
    \/ \E r \in Slots : CreateInsert(r)
    \/ \E r \in Slots : UpdateHandler(r)
    \/ \E r \in Slots : UpdateWrite(r)
    \/ \E r \in Slots : DeleteHandler(r)
    \/ \E r \in Slots : DeleteWrite(r)
    \/ Unlink

Spec == Init /\ [][Next]_vars

\* the steps of the request in slot r that wait for the file system or the
\* database to return
Returns(r) ==
    \/ Upload(r)
    \/ AbortUpload(r)
    \/ CreateHandler(r)
    \/ CreateInsert(r)
    \/ UpdateHandler(r)
    \/ UpdateWrite(r)
    \/ DeleteHandler(r)
    \/ DeleteWrite(r)

\* requests looked at where the end of every request is checked
MaxLiveRequests == 2

LiveNext ==
    \/ \E r \in Slots : issued < MaxLiveRequests /\ Request(r)
    \/ \E r \in Slots : issued < MaxLiveRequests /\ HandleMarkSold(r)
    \/ \E r \in Slots : Upload(r)
    \/ \E r \in Slots : AbortUpload(r)
    \/ \E r \in Slots : CreateHandler(r)
    \/ \E r \in Slots : CreateInsert(r)
    \/ \E r \in Slots : UpdateHandler(r)
    \/ \E r \in Slots : UpdateWrite(r)
    \/ \E r \in Slots : DeleteHandler(r)
    \/ \E r \in Slots : DeleteWrite(r)
    \/ Unlink

\* the handlers when every call to the file system and to the database
\* returns or fails in the end
LiveSpec ==
    Init /\ [][LiveNext]_vars /\ \A r \in Slots : WF_vars(Returns(r))

(***************************************************************************)
(* The reads: GET /api/products and GET /api/products/:id.                 *)
(***************************************************************************)
\* JOIN users u ON p.seller_id = u.id: the rows whose seller is in the users
\* table, which the users that tokens name are
Joined == { i \in DOMAIN products : products[i].seller_id \in Users }

\* u.name AS seller_name
SellerName(u) == [t |-> "name", of |-> u]

\* a row as a read sends it: { ...product, image_url: product.image_url ?
\* `${BASE_URL}/${product.image_url}` : null }
WithFullImageUrl(i) ==
    [id |-> i, seller_name |-> SellerName(products[i].seller_id),
     image_url |-> IF products[i].image_url /= Null
                     THEN ResolveUrl(products[i].image_url) ELSE Null]
      @@ products[i]

\* the answer of a read
ReadResponse(kind, id, code, json) ==
    [Response([Idle EXCEPT !.kind = kind, !.id = id], code, NoFile, NoBody)
       EXCEPT !.json = json]

\* GET /api/products
GetProducts ==
    /\ issued < MaxRequests
    /\ issued' = issued + 1
    /\ \/ resp' = ReadResponse("list", 0, 200,
                      [t |-> "list", items |-> [i \in Joined |-> WithFullImageUrl(i)]])
       \/ resp' = ReadResponse("list", 0, 500, NoJson)
    /\ UNCHANGED <<products, nextId, blobs, unlinks, now, reqs>>
    /\ UNCHANGED <<accounts, pool>>

\* SELECT ... WHERE p.id = ?
JoinedById(id) == { i \in Joined : i = id }

\* GET /api/products/:id
GetProductById ==
    /\ issued < MaxRequests
    /\ issued' = issued + 1
    /\ \E id \in 1..nextId :
          \/ /\ JoinedById(id) /= {}
             /\ resp' = ReadResponse("get", id, 200,
                            [t |-> "product", item |-> WithFullImageUrl(id)])
          \/ /\ JoinedById(id) = {}
             /\ resp' = ReadResponse("get", id, 404, NoJson)
          \/ resp' = ReadResponse("get", id, 500, NoJson)
    /\ UNCHANGED <<products, nextId, blobs, unlinks, now, reqs>>
    /\ UNCHANGED <<accounts, pool>>

ReadNext ==
    \/ Next
    \/ GetProducts
    \/ GetProductById

ReadSpec == Init /\ [][ReadNext]_vars

(***************************************************************************)
(* The accounts: POST /api/signup, POST /api/login, and the gate seen with *)
(* the clock.  Times are the whole seconds jsonwebtoken counts in.         *)
(***************************************************************************)
\* calls of /api/signup and /api/login looked at
MaxCalls == 3

\* expiresIn: '1h', in seconds
ExpiresIn == 3600

\* the instants the clock is read at
Instants ==
    {0, 1, ExpiresIn, ExpiresIn + 1, ExpiresIn + 2}

P == Str(<<"p">>)
Q == Str(<<"q">>)

Names == {A}
Emails == {A, B}
Passwords == {P, Q}

\* req.body of /api/signup: complete, or with one field left out
SignupBodies ==
    [name : Names, email : Emails, password : Passwords]
      \cup { [name |-> Undefined, email |-> A, password |-> P],
             [name |-> A, email |-> Empty, password |-> P],
             [name |-> A, email |-> A, password |-> Undefined] }

\* req.body of /api/login
LoginBodies ==
    [name : {Undefined}, email : Emails, password : Passwords]
      \cup { [name |-> Undefined, email |-> Undefined, password |-> P],
             [name |-> Undefined, email |-> A, password |-> Empty] }

\* the salts bcrypt may draw
Salts == {1, 2}

\* bcrypt.hash(password, 10): a digest of the password under a fresh salt
Hash(password, salt) == [t |-> "bcrypt", salt |-> salt, digest |-> <<salt, password>>]

\* variant that compares the password with the stored value itself, which
\* C22_SignupThenLogin tells apart
ComparePlain(password, hash) == hash = password

\* bcrypt.compare(password, hash): hashes the password under the salt of
\* the stored hash and compares the digests
Compare(password, hash) ==
    hash.t = "bcrypt" /\ hash.digest = <<hash.salt, password>>

\* process.env.JWT_SECRET, and the key of somebody else
JWT_SECRET == "JWT_SECRET"
OtherKey == "other"

\* jwt.sign(payload, key, { expiresIn: '1h' }) at a time
Sign(payload, key, at) ==
    [t |-> "jwt", payload |-> payload, iat |-> at, exp |-> at + ExpiresIn,
     key |-> key]

\* variant that checks the signature alone, which C23_TokenLifetime tells
\* apart
JwtVerifySignatureOnly(token, key, at) == token.t = "jwt" /\ token.key = key

\* jwt.verify(token, key, cb) at a time calls back without an error
JwtVerify(token, key, at) ==
    token.t = "jwt" /\ token.key = key /\ at < token.exp

\* !name || !email || !password
SignupIncomplete(b) == ~Truthy(b.name) \/ ~Truthy(b.email) \/ ~Truthy(b.password)

\* !email || !password
LoginIncomplete(b) == ~Truthy(b.email) \/ ~Truthy(b.password)

\* variant, a users table without the unique index, which
\* C21_DuplicateEmailRefused tells apart
DuplicateEntryNever(email) == FALSE

\* the users table holds the email already: the INSERT is refused with
\* ER_DUP_ENTRY by the unique index on users.email
DuplicateEntry(email) == \E i \in DOMAIN users : users[i].email = email

\* the catch of /api/signup
SignupError(code) == IF code = "ER_DUP_ENTRY" THEN 409 ELSE 500

\* INSERT INTO users (name, email, password) VALUES (?, ?, ?)
UserRow(b, hashedPassword) ==
    [name |-> b.name, email |-> b.email, password |-> hashedPassword]

\* const user = { id: result.insertId, name, email }
SignupUser(insertId, b) == [id |-> insertId, name |-> b.name, email |-> b.email]

\* variant that signs and sends the row as it was selected, which
\* C26_HashNeverLeaves tells apart
LoginPayloadWholeRow(id, user) ==
    [id |-> id, name |-> user.name, email |-> user.email, password |-> user.password]

\* const payload = { id: user.id, name: user.name, email: user.email }
LoginPayload(id, user) == [id |-> id, name |-> user.name, email |-> user.email]

\* variant without the WHERE clause, which C37_TokenOnlyForCredentials tells
\* apart
SelectAllUsers(email) == DOMAIN users

\* SELECT * FROM users WHERE email = ?
SelectByEmail(email) == { i \in DOMAIN users : users[i].email = email }

\* a step that answers the call
Answer(c, route, code, b, user, token) ==
    /\ calls' = [calls EXCEPT ![c] = NoCall]
    /\ reply' = Reply(route, code, b, user, token)

\* a step after which the call awaits a promise
Await(c, call) ==
    /\ calls' = [calls EXCEPT ![c] = call]
    /\ reply' = NoReply

\* a call of /api/signup arrives and runs up to the INSERT it awaits
Signup(c) ==
    /\ calls[c].pc = "idle"
    /\ \A d \in Slots : d < c => calls[d].pc /= "idle"
    /\ called < MaxCalls
    /\ called' = called + 1
    /\ \E b \in SignupBodies, salt \in Salts :
          IF SignupIncomplete(b)
            THEN Answer(c, "signup", 400, b, Null, NoToken)
            ELSE Await(c, [pc |-> "insert", route |-> "signup", body |-> b,
                           hashedPassword |-> Hash(b.password, salt)])
    /\ UNCHANGED <<users, nextUserId, time, held>>
    /\ UNCHANGED <<listings, pool>>

\* the INSERT of a signup is carried out, and the call answered
SignupInsert(c) ==
    LET call == calls[c]
        b == call.body
        user == SignupUser(nextUserId, b)
        token == Sign(user, JWT_SECRET, time)
    IN  /\ call.pc = "insert"
        /\ call.route = "signup"
        /\ \/ /\ ~DuplicateEntry(b.email)
              /\ users' = users @@ (nextUserId :> UserRow(b, call.hashedPassword))
              /\ nextUserId' = nextUserId + 1
              /\ held' = held \cup {token}
              /\ Answer(c, "signup", 201, b, user, token)
           \/ /\ DuplicateEntry(b.email)
              /\ UNCHANGED <<users, nextUserId, held>>
              /\ Answer(c, "signup", SignupError("ER_DUP_ENTRY"), b, Null, NoToken)
           \/ /\ UNCHANGED <<users, nextUserId, held>>
              /\ Answer(c, "signup", SignupError("ECONNRESET"), b, Null, NoToken)
        /\ UNCHANGED <<time, called>>
        /\ UNCHANGED <<listings, pool>>

\* a call of /api/login arrives and runs up to the SELECT it awaits
Login(c) ==
    /\ calls[c].pc = "idle"
    /\ \A d \in Slots : d < c => calls[d].pc /= "idle"
    /\ called < MaxCalls
    /\ called' = called + 1
    /\ \E b \in LoginBodies :
          IF LoginIncomplete(b)
            THEN Answer(c, "login", 400, b, Null, NoToken)
            ELSE Await(c, [pc |-> "select", route |-> "login", body |-> b,
                           hashedPassword |-> Null])
    /\ UNCHANGED <<users, nextUserId, time, held>>
    /\ UNCHANGED <<listings, pool>>

\* variant that tells an unknown email from a wrong password, which
\* C38_LoginFailuresAlike tells apart
UnknownOrInvalid(rows) == IF rows = {} THEN 404 ELSE 401

\* the status sent when no row matches or the password does not: 'Invalid
\* credentials'
InvalidCredentials(rows) == 401

\* rows[0]
First(rows) == CHOOSE i \in rows : \A j \in rows : i <= j

\* the SELECT of a login is carried out, the password compared, and the
\* call answered
LoginSelect(c) ==
    LET call == calls[c]
        b == call.body
        rows == SelectByEmail(b.email)
        denied == IF rows = {} THEN TRUE
                  ELSE ~Compare(b.password, users[First(rows)].password)
    IN  /\ call.pc = "select"
        /\ call.route = "login"
        /\ \/ /\ held' = held
              /\ Answer(c, "login", 500, b, Null, NoToken)
           \/ /\ denied
              /\ held' = held
              /\ Answer(c, "login", InvalidCredentials(rows), b, Null, NoToken)
           \/ /\ ~denied
              /\ LET payload == LoginPayload(First(rows), users[First(rows)])
                     token == Sign(payload, JWT_SECRET, time)
                 IN  /\ held' = held \cup {token}
                     /\ Answer(c, "login", 200, b, payload, token)
        /\ UNCHANGED <<users, nextUserId, time, called>>
        /\ UNCHANGED <<listings, pool>>

\* the Authorization headers a request may arrive with: none, a token a
\* client was sent, or such a token signed with another key
Presented ==
    {NoToken} \cup held \cup { [token EXCEPT !.key = OtherKey] : token \in held }

\* authenticateToken at the time the request arrives
AuthenticateTokenAt(token, at) ==
    IF token = NoToken THEN Reply("gate", 401, NoCredentials, Null, token)
    ELSE IF ~JwtVerify(token, JWT_SECRET, at)
      THEN Reply("gate", 403, NoCredentials, Null, token)
    ELSE [Reply("gate", 0, NoCredentials, token.payload, token) EXCEPT !.next = TRUE]

\* a request for a gated route arrives
Gate ==
    /\ \E token \in Presented : reply' = AuthenticateTokenAt(token, time)
    /\ UNCHANGED <<users, nextUserId, time, held, called, calls>>
    /\ UNCHANGED <<listings, pool>>

\* time passes
Tick ==
    /\ \E at \in Instants : at > time /\ time' = at
    /\ reply' = NoReply
    /\ UNCHANGED <<users, nextUserId, held, called, calls>>
    /\ UNCHANGED <<listings, pool>>

AccountsNext ==
    \/ \E c \in Slots : Signup(c)
    \/ \E c \in Slots : SignupInsert(c)
    \/ \E c \in Slots : Login(c)
    \/ \E c \in Slots : LoginSelect(c)
    \/ Gate
    \/ Tick

AccountsSpec == Init /\ [][AccountsNext]_vars

(***************************************************************************)
(* The connection pool: mysql.createPool with waitForConnections: true,    *)
(* connectionLimit: 10, queueLimit: 0.  Every query of the handlers is a   *)
(* pool.execute: it takes a connection of the pool for as long as it runs. *)
(***************************************************************************)
\* pool.execute calls looked at
MaxJobs == 12

ConnectionLimit == 10

WaitForConnections == TRUE

\* 0: no limit
QueueLimit == 0

\* variant of a pool without connectionLimit, which C29_PoolBounded tells
\* apart
HasRoomAlways(n) == TRUE

\* with n connections in use there is a free one, or room to open one
HasRoom(n) == n < ConnectionLimit

\* the queue takes one more
QueueHasRoom == QueueLimit = 0 \/ Len(queue) < QueueLimit

\* a handler calls pool.execute: the call gets a connection, waits in the
\* queue, or is turned away
Execute ==
    LET j == jobs + 1 IN
    /\ jobs < MaxJobs
    /\ jobs' = j
    /\ IF HasRoom(Cardinality(conns))
         THEN /\ conns' = conns \cup {j}
              /\ UNCHANGED <<queue, refused>>
       ELSE IF WaitForConnections /\ QueueHasRoom
         THEN /\ queue' = Append(queue, j)
              /\ UNCHANGED <<conns, refused>>
       ELSE /\ refused' = refused \cup {j}
            /\ UNCHANGED <<conns, queue>>
    /\ UNCHANGED <<listings, accounts>>

\* a query is over and its connection released: it goes to the call that
\* has waited longest, if one waits
Release ==
    /\ \E j \in conns :
          IF queue /= <<>>
            THEN /\ conns' = (conns \ {j}) \cup {Head(queue)}
                 /\ queue' = Tail(queue)
            ELSE /\ conns' = conns \ {j}
                 /\ queue' = queue
    /\ UNCHANGED <<jobs, refused>>
    /\ UNCHANGED <<listings, accounts>>

PoolNext ==
    \/ Execute
    \/ Release

PoolSpec == Init /\ [][PoolNext]_vars

(***************************************************************************)
(* Vocabulary of the properties.                                           *)
(***************************************************************************)
\* the step is one of the request in slot r
StepOf(r) == reqs'[r] /= reqs[r]

\* the step answers the request in slot r
Answers(r) == StepOf(r) /\ reqs'[r].pc = "idle" /\ resp'.status /= 0

\* the token is present, properly signed and not expired
TokenVerifies(token) == token.t = "jwt" /\ token.valid

\* the row with this id exists and belongs to another user
OwnedByOther(id, user) == id \in DOMAIN products /\ products[id].seller_id /= user

\* pending fs.unlink calls on a path
Pending(bag, path) == CopiesIn(path, bag)

RequiredFields == TextFields \cup {"price"}

\* a required field is absent from the body
FieldMissing(b) == \E f \in RequiredFields : b[f] = Undefined

\* the price sent denotes a negative number
NegativePrice(v) == v \in {Str(<<"-", "5">>), Num(0 - 5)}

\* the allow-list of content types is the pattern fileFilter tests them with
InAllowList(mimetype) == FiletypesTest(mimetype)

\* the file part the step of slot r read, after the step
FileRead(r) == IF reqs'[r].pc = "idle" THEN resp'.upfile ELSE reqs'[r].upfile

\* the body the step of slot r read, after the step
BodyRead(r) == IF reqs'[r].pc = "idle" THEN resp'.body ELSE reqs'[r].body

(***************************************************************************)
(* C1: in every reachable state every row whose image_url is not null      *)
(* names a file that exists under uploads/images.                          *)
(***************************************************************************)
C1_NoDanglingReference ==
    \A i \in DOMAIN products :
        products[i].image_url /= Null => products[i].image_url \in blobs

(***************************************************************************)
(* C2: while an update that brought a new image still waits for its UPDATE *)
(* to be executed, the image the row references has not been deleted: the  *)
(* old file goes only after the row points at the new one.                 *)
(***************************************************************************)
C2_OldBlobOutlivesUpdate ==
    \A r \in Slots :
        LET q == reqs[r] IN
        (/\ q.kind = "update"
         /\ q.pc = "db"
         /\ q.file /= Null
         /\ q.id \in DOMAIN products
         /\ products[q.id].image_url /= Null)
        => products[q.id].image_url \in blobs

(***************************************************************************)
(* C3: an update (a mark-sold is one) or delete by a user who holds a      *)
(* valid token but does not own the listing is answered 404 once the       *)
(* database has answered its lookup (500 if the lookup itself fails),      *)
(* never gets as far as its write, and no step of it changes the table.    *)
(***************************************************************************)
C3_OwnershipEnforced ==
    [][\A r \in Slots :
          LET q == reqs[r] IN
          (/\ StepOf(r)
           /\ q.kind \in {"update", "delete"}
           /\ q.pc \in {"handler", "db"}
           /\ OwnedByOther(q.id, q.user))
          => /\ q.pc = "handler"
             /\ Answers(r)
             /\ resp'.status \in {404, 500}
             /\ products' = products]_vars

C3_Witness ==
    /\ resp.status = 404
    /\ resp.kind \in {"update", "delete"}
    /\ TokenVerifies(resp.token)
    /\ OwnedByOther(resp.id, resp.token.id)

(***************************************************************************)
(* C4: only requests whose token verifies get past the gate; a request     *)
(* without a token or with one that does not verify is answered 401 or 403 *)
(* by the step that receives it, and that step changes no row, stores no   *)
(* file and issues no unlink.                                              *)
(***************************************************************************)
C4_GateBeforeService ==
    [][/\ \A r \in Slots : reqs'[r].pc /= "idle" => TokenVerifies(reqs'[r].token)
       /\ (resp'.status /= 0 /\ ~TokenVerifies(resp'.token))
          => /\ resp'.status \in {401, 403}
             /\ issued' = issued + 1
             /\ UNCHANGED <<reqs, products, nextId, blobs, unlinks>>]_vars

C4_Witness ==
    /\ resp.status \in {401, 403}
    /\ ~TokenVerifies(resp.token)
    /\ resp.kind = "delete"
    /\ resp.id \in DOMAIN products
    /\ blobs /= {}

(***************************************************************************)
(* C5: a create whose body lacks a required field or carries a negative    *)
(* price is answered 400 by the step that reads the body, which ends the   *)
(* request and leaves the table as it was.                                 *)
(***************************************************************************)
C5_CreateRejectsInvalid ==
    [][\A r \in Slots :
          LET q == reqs[r] IN
          (/\ StepOf(r)
           /\ q.kind = "create"
           /\ q.pc = "handler"
           /\ FieldMissing(BodyRead(r)) \/ NegativePrice(BodyRead(r).price))
          => /\ Answers(r)
             /\ resp'.status = 400
             /\ products' = products
             /\ nextId' = nextId]_vars

C5_Witness ==
    /\ resp.status = 400
    /\ resp.kind = "create"
    /\ NegativePrice(resp.body.price)
    /\ products /= <<>>

(***************************************************************************)
(* C6: a create that fails validation has stored no file: when the         *)
(* handler answers 400 the request holds no upload.                        *)
(***************************************************************************)
C6_ValidateBeforeStore ==
    [][\A r \in Slots :
          LET q == reqs[r] IN
          (/\ Answers(r)
           /\ q.kind = "create"
           /\ q.pc = "handler"
           /\ resp'.status = 400)
          => q.file = Null]_vars

(***************************************************************************)
(* C7: an update answered 400 leaves the row as it was and issues the      *)
(* removal of no file but (at most) the one it uploaded itself, so that    *)
(* the files that were there before the request, the listing's image       *)
(* among them, are still there when it is over.                            *)
(***************************************************************************)
C7_RejectedUpdateNoEffect ==
    [][\A r \in Slots :
          LET q == reqs[r] IN
          (/\ Answers(r)
           /\ q.kind = "update"
           /\ resp'.status = 400)
          => /\ products' = products
             /\ blobs' = blobs
             /\ \A path \in blobs :
                   path /= q.file => Pending(unlinks', path) = Pending(unlinks, path)]_vars

(***************************************************************************)
(* C8: a create whose file part declares a content type outside the        *)
(* allow-list fails in the step that reads the file: the request is over,  *)
(* no file has been written and no row.                                    *)
(***************************************************************************)
C8_CreateRejectsContentType ==
    [][\A r \in Slots :
          LET q == reqs[r] IN
          (/\ StepOf(r)
           /\ q.kind = "create"
           /\ q.pc = "upload"
           /\ FileRead(r) /= NoFile
           /\ ~InAllowList(FileRead(r).mimetype))
          => /\ Answers(r)
             /\ resp'.status >= 400
             /\ UNCHANGED <<products, nextId, blobs>>]_vars

C8_Witness ==
    /\ resp.status >= 400
    /\ resp.kind = "create"
    /\ resp.upfile /= NoFile
    /\ ~InAllowList(resp.upfile.mimetype)

(***************************************************************************)
(* C9: a file part longer than 5 MiB makes the step that reads it answer   *)
(* 400 without writing a file or a row.                                    *)
(***************************************************************************)
C9_OversizeRejectedUnwritten ==
    [][\A r \in Slots :
          LET q == reqs[r] IN
          (/\ StepOf(r)
           /\ q.pc = "upload"
           /\ FileRead(r) /= NoFile
           /\ FileRead(r).size > 5 * 1024 * 1024)
          => /\ Answers(r)
             /\ resp'.status = 400
             /\ UNCHANGED <<products, nextId, blobs>>]_vars

(***************************************************************************)
(* C10: the price of every row is a number and not negative, and so is the *)
(* price bound to every INSERT or UPDATE that has been sent.               *)
(***************************************************************************)
GoodPrice(v) == v.t = "number" /\ v.n >= 0

C10_PriceNonNegative ==
    /\ \A i \in DOMAIN products : GoodPrice(products[i].price)
    /\ \A r \in Slots :
          (reqs[r].pc = "db" /\ reqs[r].kind \in {"create", "update"})
          => GoodPrice(reqs[r].params.price)

C10_Witness ==
    /\ resp.status = 400
    /\ resp.kind = "update"
    /\ NegativePrice(resp.body.price)
    /\ resp.id \in DOMAIN products
    /\ products[resp.id].price = Num(0)

(***************************************************************************)
(* C11: the seller_id of a row is the id of a user, and no step changes    *)
(* the seller_id of a row that stays in the table (ids are never handed    *)
(* out twice, so a row is known by its id).                                *)
(***************************************************************************)
C11_SellerImmutable ==
    [][\A i \in DOMAIN products' :
          /\ products'[i].seller_id \in Users
          /\ i \in DOMAIN products => products'[i].seller_id = products[i].seller_id]_vars

C11_Witness ==
    /\ resp.status = 200
    /\ resp.kind = "update"
    /\ resp.id \in DOMAIN products
    /\ products[resp.id].seller_id = resp.token.id
    /\ products[resp.id].title = B

(***************************************************************************)
(* C12: a delete by the owner goes on to its DELETE statement whatever the *)
(* state of the image file (present, already absent, unlink pending), and  *)
(* when the statement is executed the row is gone, the other rows are as   *)
(* they were and the answer is 200.  The only other outcome of either step *)
(* is 500 with the table unchanged, when the database fails the statement. *)
(***************************************************************************)
C12_DeleteRemovesRow ==
    [][\A r \in Slots :
          LET q == reqs[r] IN
          (/\ StepOf(r)
           /\ q.kind = "delete"
           /\ q.pc \in {"handler", "db"}
           /\ q.id \in DOMAIN products
           /\ products[q.id].seller_id = q.user)
          => \/ /\ q.pc = "handler"
                /\ reqs'[r].pc = "db"
                /\ products' = products
             \/ /\ q.pc = "db"
                /\ Answers(r)
                /\ resp'.status = 200
                /\ DOMAIN products' = DOMAIN products \ {q.id}
                /\ \A i \in DOMAIN products' : products'[i] = products[i]
             \/ /\ Answers(r)
                /\ resp'.status = 500
                /\ products' = products]_vars

\* the owner's delete is about to look for an image file that is already
\* absent
C12_Witness ==
    \E r \in Slots :
        /\ reqs[r].kind = "delete"
        /\ reqs[r].pc = "handler"
        /\ reqs[r].id \in DOMAIN products
        /\ products[reqs[r].id].seller_id = reqs[r].user
        /\ products[reqs[r].id].image_url /= Null
        /\ products[reqs[r].id].image_url \notin blobs

(***************************************************************************)
(* C13: a delete issues the removal of the image only once its row is gone *)
(* from the table: no step of a delete that leaves the row in the table    *)
(* issues an unlink.                                                       *)
(***************************************************************************)
C13_RowBeforeBlob ==
    [][\A r \in Slots :
          (/\ StepOf(r)
           /\ reqs[r].kind = "delete"
           /\ reqs[r].id \in DOMAIN products')
          => unlinks' = unlinks]_vars

(***************************************************************************)
(* C14: the step that carries out a create's INSERT either adds a row and  *)
(* answers 201, or (the INSERT failed) adds none, leaves the table as it   *)
(* was, answers 500 and, when the request stored an image, issues the      *)
(* unlink of that file.                                                    *)
(***************************************************************************)
C14_InsertFailureCompensated ==
    [][\A r \in Slots :
          LET q == reqs[r] IN
          (/\ StepOf(r)
           /\ q.kind = "create"
           /\ q.pc = "db")
          => /\ Answers(r)
             /\ IF DOMAIN products' = DOMAIN products
                  THEN /\ resp'.status = 500
                       /\ products' = products
                       /\ q.file /= Null =>
                             Pending(unlinks', q.file) = Pending(unlinks, q.file) + 1
                  ELSE resp'.status = 201]_vars

\* the only request so far, a create with an image, was answered 500 by its
\* INSERT step and the unlink of its file is pending
C14_Witness ==
    /\ issued = 1
    /\ resp.status = 500
    /\ resp.kind = "create"
    /\ resp.upfile = NoFile
    /\ products = <<>>
    /\ blobs /= {}
    /\ \A path \in blobs : Pending(unlinks, path) = 1

(***************************************************************************)
(* C15: a create whose file could not be stored (refused by the filter,    *)
(* over the size limit, or failing while written) is answered 500 by the   *)
(* upload step with the table unchanged, and a create that sent a file     *)
(* gets to its handler, hence to its INSERT, only with the file stored.    *)
(***************************************************************************)
C15_StoreFailureAborts ==
    [][\A r \in Slots :
          LET q == reqs[r] IN
          /\ (StepOf(r) /\ q.kind = "create" /\ q.pc \in {"upload", "abort"} /\ Answers(r))
             => /\ resp'.status = 500
                /\ UNCHANGED <<products, nextId>>
          /\ (reqs'[r].kind = "create" /\ reqs'[r].pc \in {"handler", "db"}
                /\ reqs'[r].upfile /= NoFile)
             => /\ reqs'[r].file /= Null
                /\ q.pc = "upload" => reqs'[r].file \in blobs']_vars

\* a create whose file passed the filter and the size limit failed while
\* the file was written
C15_Witness ==
    /\ resp.status = 500
    /\ resp.kind = "create"
    /\ resp.upfile /= NoFile
    /\ FileFilter(resp.upfile)
    /\ resp.upfile.size <= FileSizeLimit
    /\ products /= <<>>

(***************************************************************************)
(* C16: the step that answers a create 201 adds exactly one row, under a   *)
(* fresh id, with the other rows as they were; its seller_id is the id the *)
(* caller's token carries and its sold flag is false.  When the request    *)
(* sent no file, the listing in the response has a null image, sold false  *)
(* and, as price, the number the price sent denotes.                       *)
(***************************************************************************)
\* the number a price sent as text denotes
Denotes(v) ==
    CASE v = Str(<<"0">>) -> Num(0)
      [] v = Str(<<"7">>) -> Num(7)
      [] OTHER -> v

C16_CreateAddsOneRow ==
    [][\A r \in Slots :
          LET q == reqs[r] IN
          (/\ Answers(r)
           /\ q.kind = "create"
           /\ resp'.status = 201)
          => /\ nextId \notin DOMAIN products
             /\ DOMAIN products' = DOMAIN products \cup {nextId}
             /\ \A i \in DOMAIN products : products'[i] = products[i]
             /\ products'[nextId].seller_id = q.token.id
             /\ products'[nextId].sold = FALSE
             /\ resp'.json.id = nextId
             /\ q.upfile = NoFile
                => /\ resp'.json.image_url = Null
                   /\ products'[nextId].image_url = Null
                   /\ resp'.json.sold = FALSE
                   /\ resp'.json.price = Denotes(q.body.price)
                   /\ resp'.json.price.t = "number"]_vars

C16_Witness ==
    /\ resp.status = 201
    /\ resp.json.image_url = Null
    /\ resp.json.sold = FALSE
    /\ resp.json.price = Num(7)
    /\ resp.json.id \in DOMAIN products
    /\ products[resp.json.id].seller_id = resp.token.id

(***************************************************************************)
(* C17: every mark-sold call that succeeds on a row flips its sold flag:   *)
(* the flag the executed UPDATE leaves is the negation of the flag the row *)
(* had when the UPDATE was executed (so that two calls restore it).        *)
(***************************************************************************)
\* the step of slot r carries out the UPDATE of a mark-sold on its row
MarkSoldWrites(r) ==
    /\ Answers(r)
    /\ reqs[r].kind = "update"
    /\ reqs[r].json
    /\ reqs[r].pc = "db"
    /\ resp'.status = 200
    /\ reqs[r].id \in DOMAIN products

C17_MarkSoldFlips ==
    [][\A r \in Slots :
          MarkSoldWrites(r)
          => products'[reqs[r].id].sold = ~products[reqs[r].id].sold]_vars

(***************************************************************************)
(* C18: a mark-sold call changes sold alone: every other column of its row *)
(* is after the executed UPDATE what it was immediately before it.         *)
(***************************************************************************)
OtherColumns ==
    TextFields \cup {"price", "image_url", "seller_id"}

C18_MarkSoldOnlySold ==
    [][\A r \in Slots :
          MarkSoldWrites(r)
          => \A c \in OtherColumns :
                products'[reqs[r].id][c] = products[reqs[r].id][c]]_vars

(***************************************************************************)
(* C19: an update that succeeds on a row leaves in every column the value  *)
(* the request supplied for it, if it supplied a valid one (a non-empty    *)
(* text, a price, a sold flag, a new image), and otherwise the value the   *)
(* column had immediately before the UPDATE was executed.                  *)
(***************************************************************************)
\* the step of slot r carries out the UPDATE of an update on its row
UpdateWrites(r) ==
    /\ Answers(r)
    /\ reqs[r].kind = "update"
    /\ reqs[r].pc = "db"
    /\ resp'.status = 200
    /\ reqs[r].id \in DOMAIN products

\* the request in slot r supplies a valid value for column c
Supplies(r, c) ==
    LET q == reqs[r] IN
    CASE c \in TextFields -> q.body[c] \notin {Undefined, Empty}
      [] c = "price" -> q.body.price /= Undefined
      [] c = "sold" -> q.body.sold /= Undefined
      [] c = "image_url" -> q.file /= Null

\* the value it supplies
Supplied(r, c) ==
    LET q == reqs[r] IN
    CASE c \in TextFields -> q.body[c]
      [] c = "price" -> Denotes(q.body.price)
      [] c = "sold" -> q.body.sold.b
      [] c = "image_url" -> q.file

C19_PartialUpdate ==
    [][\A r \in Slots :
          UpdateWrites(r)
          => \A c \in TextFields \cup {"price", "sold", "image_url"} :
                IF Supplies(r, c)
                  THEN products'[reqs[r].id][c] = Supplied(r, c)
                  ELSE products'[reqs[r].id][c] = products[reqs[r].id][c]]_vars

(***************************************************************************)
(* C20: when an update that uploaded a new image is answered 200 and its   *)
(* row is in the table, the row names the new file, the new file exists    *)
(* and is not about to be removed, and the file the row named before is    *)
(* gone or its removal has been issued.                                    *)
(***************************************************************************)
C20_ImageReplaced ==
    [][\A r \in Slots :
          LET q == reqs[r]
              old == products[q.id].image_url
          IN  (UpdateWrites(r) /\ q.file /= Null)
              => /\ products'[q.id].image_url = q.file
                 /\ q.file \in blobs'
                 /\ Pending(unlinks', q.file) = 0
                 /\ (old /= Null /\ old /= q.file)
                    => old \notin blobs' \/ Pending(unlinks', old) > 0]_vars

\* the email is registered
Registered(email) == \E i \in DOMAIN users : users[i].email = email

\* the step answers the call in slot c
AnswersCall(c) == calls[c].pc /= "idle" /\ calls'[c] = NoCall

\* C21: a signup whose email is already registered fails with 409 (with 500
\* when the database itself fails) and leaves the users table as it was;
\* and no two rows of the users table ever share an email, whatever the
\* overlap of the signups.
C21_DuplicateEmailRefused ==
    [][/\ \A c \in Slots :
             /\ AnswersCall(c)
             /\ calls[c].route = "signup"
             /\ Registered(calls[c].body.email)
             => /\ reply'.status \in {409, 500}
                /\ users' = users
       /\ \A i, j \in DOMAIN users' :
             i /= j => users'[i].email /= users'[j].email]_vars

\* a signup was answered 409 for an email that is registered, while another
\* signup for the same email is still to be inserted
C21_Witness ==
    /\ reply.route = "signup"
    /\ reply.status = 409
    /\ Registered(reply.body.email)
    /\ \E c \in Slots :
          /\ calls[c].pc = "insert"
          /\ calls[c].body.email = reply.body.email


\* the user with this id signed up with this password
SignedUpWith(i, password) ==
    \E salt \in Salts : users[i].password = Hash(password, salt)

\* what a user is known by
Identity(i, table) == [id |-> i, name |-> table[i].name, email |-> table[i].email]

\* the token is one the server signed, not expired at the time, and carries
\* this identity
DecodesTo(token, at, identity) ==
    /\ token.t = "jwt"
    /\ token.key = JWT_SECRET
    /\ at < token.exp
    /\ token.payload = identity

\* C22: a signup with complete fields and a fresh email succeeds (unless the
\* database itself fails) and registers the user; a login with the email and
\* password of a registered user succeeds likewise, and its response carries
\* that user's identity (id, name, email) and a token that verifies and
\* decodes to the same identity.
C22_SignupThenLogin ==
    [][\A c \in Slots :
          /\ AnswersCall(c) /\ calls[c].route = "signup"
             /\ ~Registered(calls[c].body.email)
             => \/ reply'.status = 500 /\ users' = users
                \/ /\ reply'.status = 201
                   /\ \E i \in DOMAIN users' \ DOMAIN users :
                         /\ users'[i].email = calls[c].body.email
                         /\ users'[i].name = calls[c].body.name
                         /\ reply'.user = Identity(i, users')
                         /\ DecodesTo(reply'.token, time', Identity(i, users'))
          /\ AnswersCall(c) /\ calls[c].route = "login"
             => \A i \in DOMAIN users :
                   /\ users[i].email = calls[c].body.email
                   /\ SignedUpWith(i, calls[c].body.password)
                   => \/ reply'.status = 500
                      \/ /\ reply'.status = 200
                         /\ reply'.user = Identity(i, users)
                         /\ DecodesTo(reply'.token, time', Identity(i, users))]_vars

\* a login was answered 200 with the identity of a user who signed up with
\* the password it sent
C22_Witness ==
    /\ reply.route = "login"
    /\ reply.status = 200
    /\ \E i \in DOMAIN users :
          /\ reply.user = Identity(i, users)
          /\ SignedUpWith(i, reply.body.password)


\* one hour, in seconds
Hour == 60 * 60

\* the gate answered a request that carried a token the server issued
GateSawIssued == reply.route = "gate" /\ reply.token.t = "jwt" /\ reply.token.key = JWT_SECRET

\* C23: the gate lets a token the server issued at time t through at every
\* time before t + 1 hour and rejects it at every time after t + 1 hour; a
\* token under another signature is rejected at every time; so the outcome
\* is fixed by the token and the clock, whatever the tables hold.
C23_TokenLifetime ==
    /\ GateSawIssued /\ reply.at < reply.token.iat + Hour => reply.next
    /\ GateSawIssued /\ reply.at > reply.token.iat + Hour
          => ~reply.next /\ reply.status = 403
    /\ reply.route = "gate" /\ reply.token.t = "jwt" /\ reply.token.key /= JWT_SECRET
          => ~reply.next /\ reply.status = 403

\* a token the server issued is rejected after its hour, having been issued
\* after the clock started
C23_Witness ==
    /\ GateSawIssued
    /\ reply.token.iat > 0
    /\ reply.at > reply.token.iat + Hour
    /\ reply.status = 403


\* C24: the gate answers 401 both to a request without a token and to one
\* whose token is invalid or expired.
C24_GateAnswers401 ==
    reply.route = "gate" /\ ~reply.next => reply.status = 401


\* the row with this id does not exist
Absent(id) == id \notin DOMAIN products

NoHashIn(rec) ==
    /\ "password" \notin DOMAIN rec
    /\ \A f \in DOMAIN rec \ {"id"} : rec[f].t /= "bcrypt"

\* C26: every password column of the users table holds a bcrypt hash, never
\* the password as it was sent; and neither the user of a signup or login
\* response, nor the payload of a token sent to a client, carries the hash.
C26_HashNeverLeaves ==
    /\ \A i \in DOMAIN users :
          /\ users[i].password.t = "bcrypt"
          /\ users[i].password \notin Passwords
    /\ reply.user /= Null => NoHashIn(reply.user)
    /\ reply.token /= NoToken => NoHashIn(reply.token.payload)
    /\ \A token \in held : NoHashIn(token.payload)

\* a signup was answered 201 and the row it stored holds a hash of the
\* password it sent
C26_Witness ==
    /\ reply.route = "signup"
    /\ reply.status = 201
    /\ reply.user.id \in DOMAIN users
    /\ SignedUpWith(reply.user.id, reply.body.password)
    /\ reply.token \in held


\* what a stored image reference is to be sent as
Resolved(ref) ==
    IF ref = Null THEN Null ELSE [t |-> "url", base |-> "BASE_URL", ref |-> ref]

\* the listings a response carries, by id
Returned ==
    IF resp.status = 200 /\ resp.kind = "list" THEN resp.json.items
    ELSE IF resp.status = 200 /\ resp.kind = "get" THEN (resp.id :> resp.json.item)
    ELSE IF resp.status = 201 /\ resp.kind = "create" THEN (resp.json.id :> resp.json)
    ELSE <<>>

\* C27: every listing that list, getById or create sends carries, as its
\* image URL, null when the row's image reference is null and otherwise
\* BASE_URL + '/' + the reference: a function of the reference alone.
C27_ImageUrlResolved ==
    \A i \in DOMAIN Returned :
       /\ i \in DOMAIN products
       /\ Returned[i].id = i
       /\ Returned[i].image_url = Resolved(products[i].image_url)

\* a list was answered with a listing that has an image and one that has none
C27_Witness ==
    /\ resp.kind = "list"
    /\ resp.status = 200
    /\ \E i, j \in DOMAIN Returned :
          /\ products[i].image_url /= Null
          /\ products[j].image_url = Null


\* the ids of the listings that have been deleted
Deleted == (1..(nextId - 1)) \ DOMAIN products

\* C28: a listing that has been deleted stays deleted: no later step brings
\* its row back, getById on its id is answered 404 (500 when the database
\* itself fails), and no list contains it.
C28_DeletionFinal ==
    [][\A id \in Deleted :
          /\ id \notin DOMAIN products'
          /\ resp'.kind = "get" /\ resp'.id = id => resp'.status \in {404, 500}
          /\ resp'.kind = "list" /\ resp'.status = 200
                => id \notin DOMAIN resp'.json.items]_vars

\* getById on the id of a deleted listing was answered 404
C28_Witness ==
    /\ resp.kind = "get"
    /\ resp.status = 404
    /\ resp.id \in Deleted


\* the elements of a sequence
Range(seq) == { seq[k] : k \in DOMAIN seq }

\* C29: never more than 10 calls hold a connection of the pool; a call that
\* arrives when all 10 are held is queued, not turned away; and when a
\* connection is released while calls wait, the one that has waited longest
\* holds a connection from then on.
C29_PoolBounded ==
    [][/\ Cardinality(conns') <= 10
       /\ refused' = {}
       /\ jobs' = jobs + 1 /\ Cardinality(conns) = 10
             => jobs' \in Range(queue') /\ conns' = conns
       /\ jobs' = jobs /\ queue /= <<>>
             => Head(queue) \in conns' /\ Head(queue) \notin Range(queue')]_vars

\* all 10 connections are held, a call waits, and a call that waited earlier
\* holds one of them
C29_Witness ==
    /\ Cardinality(conns) = 10
    /\ queue /= <<>>
    /\ \E j \in conns : j > 10


\* C30: a file that is stored gets a reference under which no file is
\* stored yet, also when two are stored within one tick of the clock; and no
\* two rows of the table name the same file.
C30_ReferencesDistinct ==
    [][/\ \A r \in Slots :
             StepOf(r) /\ reqs[r].pc = "upload" /\ reqs'[r].file /= Null
             => reqs'[r].file \notin blobs
       /\ \A i, j \in DOMAIN products' :
             i /= j /\ products'[i].image_url /= Null
             => products'[i].image_url /= products'[j].image_url]_vars


\* C31: an update whose UPDATE finds the row gone, a delete having removed
\* it since the update looked it up, is not answered 200, and the file it
\* uploaded is removed or its removal issued.
C31_UpdateOfDeletedFails ==
    [][\A r \in Slots :
          LET q == reqs[r] IN
          (/\ Answers(r)
           /\ q.kind = "update"
           /\ q.pc = "db"
           /\ Absent(q.id))
          => /\ resp'.status /= 200
             /\ q.file /= Null
                   => q.file \notin blobs' \/ Pending(unlinks', q.file) > 0]_vars


\* C32: of two overlapping updates of one listing that supply different
\* columns, the one that writes last keeps what the other wrote: a column
\* (a text, the price or the image) that it does not supply itself, and
\* that has changed since it read the row, is after its UPDATE what the
\* other update made it, as it would be had the two run one after the other.
C32_ConcurrentUpdatesMerge ==
    [][\A r \in Slots :
          UpdateWrites(r)
          => \A c \in TextFields \cup {"price", "image_url"} :
                /\ ~Supplies(r, c)
                /\ products[reqs[r].id][c] /= reqs[r].params[c]
                => products'[reqs[r].id][c] = products[reqs[r].id][c]]_vars


\* C33: an update that stored a new image and is answered with a failure
\* (404, 400 or 500) has the removal of that file issued, or the file is
\* gone, when it answers.
C33_FailedUpdateRemovesUpload ==
    [][\A r \in Slots :
          LET q == reqs[r] IN
          (/\ Answers(r)
           /\ q.kind = "update"
           /\ q.pc \in {"handler", "db"}
           /\ q.file /= Null
           /\ resp'.status \in {400, 404, 500})
          => q.file \notin blobs' \/ Pending(unlinks', q.file) > 0]_vars


\* the text is there and not empty
NonEmpty(v) == v.t = "string" /\ v.s /= <<>>

\* C34: every row of the table has a non-empty title, category,
\* description, contact_number and location, whatever creates and updates,
\* updates that send an empty text among them, have run.
C34_TextsNeverEmpty ==
    \A i \in DOMAIN products :
       \A c \in TextFields : NonEmpty(products[i][c])

\* an update that sent an empty title is about to write the title its row
\* has
C34_Witness ==
    \E r \in Slots :
       /\ reqs[r].pc = "db"
       /\ reqs[r].kind = "update"
       /\ reqs[r].body.title = Empty
       /\ reqs[r].id \in DOMAIN products
       /\ reqs[r].params.title = products[reqs[r].id].title


\* the body has every text non-empty and a price that denotes a number not
\* below zero
ValidCreateBody(b) ==
    /\ \A c \in TextFields : b[c] /= Undefined /\ NonEmpty(b[c])
    /\ b.price /= Undefined
    /\ GoodPrice(Denotes(b.price))

\* C35: the handler of a create answers 400 exactly when a required field
\* is missing or empty or the price is not a number or is negative; a
\* price of zero, sent as the text "0" or as the number 0, is let through.
C35_CreateRejectsExactly ==
    [][\A r \in Slots :
          LET q == reqs[r] IN
          (/\ StepOf(r)
           /\ q.kind = "create"
           /\ q.pc = "handler")
          => ((Answers(r) /\ resp'.status = 400) <=> ~ValidCreateBody(BodyRead(r)))]_vars


\* how far a request has got
Stage(pc) ==
    CASE pc = "idle" -> 0
      [] pc = "upload" -> 1
      [] pc = "abort" -> 2
      [] pc = "handler" -> 3
      [] pc = "db" -> 4

C37_TokenOnlyForCredentials ==
    [][/\ held' \subseteq held \cup {reply'.token}
       /\ reply'.token /= NoToken /\ reply'.route /= "gate"
             => \E c \in Slots :
                   LET token == reply'.token IN
                   /\ AnswersCall(c)
                   /\ token \in held'
                   /\ token.key = JWT_SECRET
                   /\ \/ /\ calls[c].route = "signup"
                         /\ reply'.status = 201
                         /\ token.payload.id \in DOMAIN users' \ DOMAIN users
                         /\ token.payload = Identity(token.payload.id, users')
                      \/ /\ calls[c].route = "login"
                         /\ reply'.status = 200
                         /\ token.payload.id \in DOMAIN users
                         /\ token.payload = Identity(token.payload.id, users)
                         /\ users[token.payload.id].email = calls[c].body.email
                         /\ SignedUpWith(token.payload.id, calls[c].body.password)
       /\ reply'.route \in {"signup", "login"} /\ reply'.status \notin {200, 201}
             => reply'.token = NoToken /\ held' = held]_vars

\* a login with the email of a registered user and another password was
\* answered 401 without a token, after a token had been issued
C37_Witness ==
    /\ reply.route = "login"
    /\ reply.status = 401
    /\ reply.token = NoToken
    /\ held /= {}
    /\ \E i \in DOMAIN users :
          /\ users[i].email = reply.body.email
          /\ ~SignedUpWith(i, reply.body.password)


\* C38: a login whose email is not registered and a login whose email is
\* registered with another password are answered alike, by a response that
\* the request alone fixes: 401 without user and token (500 when the
\* database itself fails), the tables and the tokens handed out unchanged.
C38_LoginFailuresAlike ==
    [][\A c \in Slots :
          LET b == calls[c].body IN
          (/\ AnswersCall(c)
           /\ calls[c].route = "login"
           /\ calls[c].pc = "select"
           /\ \A i \in DOMAIN users :
                 users[i].email = b.email => ~SignedUpWith(i, b.password))
          => /\ reply'.status \in {401, 500}
             /\ reply' = [NoReply EXCEPT !.route = "login", !.status = reply'.status,
                                         !.body = b, !.at = time]
             /\ UNCHANGED <<users, nextUserId, held>>]_vars

\* a login with an email that is not registered was answered 401, users
\* being registered
C38_Witness ==
    /\ reply.route = "login"
    /\ reply.status = 401
    /\ ~Registered(reply.body.email)
    /\ users /= <<>>

====
